---- MODULE Spec2Model ----
(***************************************************************************)
(* A model of tti.py: the block codec (Encoder.encode, Decoder.decode),    *)
(* the image raster dimensions (create_image) and the dimension solver     *)
(* (prime_factors, closest_factors_to_sqrt, recommend_img_dim,             *)
(* find_optimal_dim).                                                      *)
(*                                                                         *)
(* Bytes are integers in 0..255, byte strings are sequences of bytes.      *)
(* A max ratio is a rational num/den (the code holds a float; the          *)
(* comparisons x/y > max_ratio are modelled exactly as x*den > y*num).     *)
(* Python's None is modelled by NoneIndex for last_header_index and by a   *)
(* record with some = FALSE for max_ratio.                                 *)
(***************************************************************************)
EXTENDS Integers, Sequences

\* ------------------------------------------------------------- bounds

\* Longest input byte string given to Encoder.encode.
MaxLen == 9
\* Longest trailing garbage appended after the framed blocks of a stream.
MaxTail == 9
\* Largest number of whole blocks in a stream that no encoder produced.
MaxRawBlocks == 2
\* Largest width and height given to find_optimal_dim.
MaxSide == 12
\* Most negative argument given to prime_factors is -MaxNeg.
MaxNeg == 4
\* The iteration counter of prime_factors saturates here (the loop
\* condition never reads it).
MaxCount == 5

\* Byte values of the inputs: 97 'a' (ASCII, odd parity) and 255 (not ASCII,
\* even parity).
ByteVals == {97, 255}
\* Byte values of trailing garbage: as a header, 0 is not end-marked and 255
\* is.
TailVals == {0, 255}
\* Payload byte values of blocks no encoder produced.
RawVals == {0, 255}
\* Header bytes of blocks no encoder produced: 0 and 1 and 253 are not
\* end-marked, 14 is end-marked with length 3 and no shift, 31 is
\* end-marked with length 7 and shift.
RawHeaders == {0, 1, 253, 14, 31}
\* Max-ratio bounds r >= 1 as <<num, den>>.
Ratios == {<<1, 1>>, <<3, 2>>, <<2, 1>>, <<3, 1>>}

\* ------------------------------------------------------------ helpers

Min(a, b) == IF a <= b THEN a ELSE b

\* s[:k]
Take(s, k) == SubSeq(s, 1, Min(k, Len(s)))

\* s[k:]
Drop(s, k) == SubSeq(s, Min(k, Len(s)) + 1, Len(s))

\* s * k
RECURSIVE Repeat(_, _)
Repeat(s, k) == IF k <= 0 THEN <<>> ELSE s \o Repeat(s, k - 1)

\* All byte strings over vals of length at most n.
SeqsUpTo(vals, n) == UNION {[1..k -> vals] : k \in 0..n}

\* (b >> i) & 1
Bit(b, i) == (b \div (2 ^ i)) % 2

\* a & b on bytes
BitAnd(a, b) ==
    Bit(a, 0) * Bit(b, 0) + 2 * Bit(a, 1) * Bit(b, 1)
    + 4 * Bit(a, 2) * Bit(b, 2) + 8 * Bit(a, 3) * Bit(b, 3)
    + 16 * Bit(a, 4) * Bit(b, 4) + 32 * Bit(a, 5) * Bit(b, 5)
    + 64 * Bit(a, 6) * Bit(b, 6) + 128 * Bit(a, 7) * Bit(b, 7)

\* a | b on bytes
BitOr(a, b) == a + b - BitAnd(a, b)

\* ---------------------------------------------------- dimension solver

\* int(n**0.5) for n >= 0
isqrt(n) == CHOOSE k \in 0..n : k * k <= n /\ (k + 1) * (k + 1) > n

\* The number of iterations of "while n % p == 0: n //= p; count += 1".
DivCount[n \in Int, p \in Int] ==
    IF n % p = 0 THEN 1 + DivCount[n \div p, p] ELSE 0

\* The value of n after "while n % p == 0: n //= p".
DivOut[n \in Int, p \in Int] ==
    IF n % p = 0 THEN DivOut[n \div p, p] ELSE n

\* "for prime in range(prime, stop, 2)": the mapping pf is a set of
\* <<prime, count>> pairs.
OddLoop[n \in Int, prime \in Int, stop \in Int, pf \in SUBSET (Int \X Int)] ==
    IF prime >= stop THEN [n |-> n, pf |-> pf]
    ELSE OddLoop[DivOut[n, prime], prime + 2, stop,
                 IF DivCount[n, prime] > 0
                 THEN pf \cup {<<prime, DivCount[n, prime]>>} ELSE pf]

\* prime_factors from line 20 on: n has no factor 2 left, count is the number
\* of halvings done. Defined for n >= 1.
prime_factors_rest(n, count) ==
    LET pf2 == IF count > 0 THEN {<<2, count>>} ELSE {}
        r   == OddLoop[n, 3, isqrt(n) + 1, pf2]
    IN  IF r.n > 1 THEN r.pf \cup {<<r.n, 1>>} ELSE r.pf

\* prime_factors(n) for n >= 1.
prime_factors(n) == prime_factors_rest(DivOut[n, 2], DivCount[n, 2])

\* [prime]*occurrence for each prime, largest prime first.
pfs_queue[pfs \in SUBSET (Int \X Int)] ==
    IF pfs = {} THEN <<>>
    ELSE LET top == CHOOSE e \in pfs : \A f \in pfs : f[1] <= e[1]
         IN  Repeat(<<top[1]>>, top[2]) \o pfs_queue[pfs \ {top}]

\* The greedy pairing loop of closest_factors_to_sqrt.
GreedyPair[q \in Seq(Int), a \in Int, b \in Int] ==
    IF Len(q) = 0 THEN <<a, b>>
    ELSE IF a <= b THEN GreedyPair[Tail(q), a * Head(q), b]
         ELSE GreedyPair[Tail(q), a, b * Head(q)]

closest_factors_to_sqrt(n) == GreedyPair[pfs_queue[prime_factors(n)], 1, 1]

recommend_img_dim(pixels, portrait) ==
    LET ab == closest_factors_to_sqrt(pixels)
        a  == ab[1]
        b  == ab[2]
    IN  IF portrait
        THEN (IF a < b THEN <<a, b>> ELSE <<b, a>>)
        ELSE (IF a > b THEN <<a, b>> ELSE <<b, a>>)

\* A ratio test that forgets (y/x) > max_ratio.
not_within_ratio_one_sided(x, y, r) == x * r[2] > y * r[1]

\* ((x/y) > max_ratio) or ((y/x) > max_ratio), max_ratio = r[1]/r[2]
not_within_ratio(x, y, r) == (x * r[2] > y * r[1]) \/ (y * r[2] > x * r[1])

\* One iteration of the loop of find_optimal_dim.
find_optimal_step(x, y) == recommend_img_dim((x * y) + 1, FALSE)

RECURSIVE find_optimal_dim(_, _, _)
find_optimal_dim(x, y, r) ==
    IF not_within_ratio(x, y, r)
    THEN LET xy == find_optimal_step(x, y) IN find_optimal_dim(xy[1], xy[2], r)
    ELSE <<x, y>>

\* ---------------------------------------------------- Encoder.encode

\* Python's None for last_header_index.
NoneIndex == -1

\* max_ratio = None, and max_ratio = num/den
NoRatio == [some |-> FALSE, r |-> <<0, 1>>]
SomeRatio(r) == [some |-> TRUE, r |-> r]

\* fill_buffer of encode: up to 7 bytes of the input iterator.
fill_buffer7(it) == Take(it, 7)

\* buffer.ljust(7, b"\x00")
ljust7(buffer) == buffer \o Repeat(<<0>>, 7 - Len(buffer))

\* "for i in range(8): count += (b >> i) & 1"
count_set_bits(b) ==
    Bit(b, 0) + Bit(b, 1) + Bit(b, 2) + Bit(b, 3)
    + Bit(b, 4) + Bit(b, 5) + Bit(b, 6) + Bit(b, 7)

\* next(bitter, 0) for the i-th byte (from 0) of the buffer
next_or_0(buffer, i) == IF i + 1 <= Len(buffer) THEN buffer[i + 1] ELSE 0

\* "for i in range(6): header |= (result & 1) << (5-i)", from i on
RECURSIVE parity_bits(_, _, _)
parity_bits(buffer, i, header) ==
    IF i > 5 THEN header
    ELSE parity_bits(buffer, i + 1,
           BitOr(header,
                 BitAnd(count_set_bits(next_or_0(buffer, i)), 1) * (2 ^ (5 - i))))

\* A header shifted by one bit only: the last parity bit lands on bit 1.
header_shift_by_one(header) == header * 2

\* header <<= 2
header_shift(header) == header * 4

get_header(buffer, is_ascii) ==
    LET h6  == parity_bits(buffer, 0, 0)
        inv == IF BitAnd(count_set_bits(next_or_0(buffer, 6)), 1) = 1
               THEN BitAnd(255 - h6, 63)
               ELSE h6
    IN  BitOr(header_shift(inv), IF is_ascii THEN 1 ELSE 0)

\* all(map(lambda b: b <= 0x7f, buffer))
all_ascii(buffer) == \A i \in 1..Len(buffer) : buffer[i] <= 127

\* Lines 239-245: the 8-byte block of one nonempty chunk of up to 7 bytes.
encode_block(chunk) ==
    LET is_ascii == all_ascii(chunk)
        buffer   == ljust7(chunk)
        header   == get_header(buffer, is_ascii)
        shifted  == IF is_ascii THEN [i \in 1..7 |-> buffer[i] * 2] ELSE buffer
    IN  <<header>> \o shifted

\* Lines 250-253 on the header byte h.
mark_last_header(h, last_len) ==
    BitOr(BitAnd(BitOr(h, 2), 227), last_len * 4)

\* Lines 231-253 as a function: the framed blocks of b, the last one marked.
RECURSIVE encode_blocks(_)
encode_blocks(b) ==
    IF Len(b) = 0 THEN <<>>
    ELSE LET chunk == fill_buffer7(b)
             block == encode_block(chunk)
             rest  == Drop(b, 7)
         IN  IF Len(rest) = 0
             THEN [block EXCEPT ![1] = mark_last_header(block[1], Len(chunk))]
             ELSE block \o encode_blocks(rest)

\* missing = (3 - (len(output) % 3)) % 3
missing3(len_out) == (3 - (len_out % 3)) % 3

\* Lines 258-261: the padding length; needs (len_out+missing)//3 >= 1 when a
\* max ratio is given.
missing_bytes(len_out, mr) ==
    LET missing == missing3(len_out)
    IN  IF mr.some
        THEN LET c == recommend_img_dim((len_out + missing) \div 3, FALSE)
                 o == find_optimal_dim(c[1], c[2], mr.r)
             IN  missing + (o[1] * o[2] - c[1] * c[2]) * 3
        ELSE missing

\* A padding that forgets output.extend(output[:mod]).
cyclic_pad_whole_copies(out, missing) == Repeat(out, (missing \div Len(out)) + 1)

\* Lines 262-265: the cyclic padding, for len(out) > 0.
cyclic_pad(out, missing) ==
    LET div == missing \div Len(out)
        mod == missing % Len(out)
        rep == Repeat(out, div + 1)
    IN  rep \o Take(rep, mod)

\* ---------------------------------------------------- Decoder.decode

\* fill_buffer of decode: up to 8 bytes of the input iterator.
fill_buffer8(it) == Take(it, 8)

\* Lines 344-347: the payload of a block, shifted back when bit 0 is set.
processed_of(buffer) ==
    IF BitAnd(buffer[1], 1) # 0
    THEN [i \in 1..(Len(buffer) - 1) |-> buffer[i + 1] \div 2]
    ELSE Tail(buffer)

\* (buffer[0]>>2)&7
final_length(h) == BitAnd(h \div 4, 7)

\* Lines 342-349: the bytes one block adds to decoded.
decode_block(buffer) ==
    IF BitAnd(buffer[1], 2) # 0
    THEN Take(processed_of(buffer), final_length(buffer[1]))
    ELSE processed_of(buffer)

\* An end test that reads bit 2 of the header.
is_end_block_bit2(buffer) == BitAnd(buffer[1], 4) # 0

\* buffer[0] & 2
is_end_block(buffer) == BitAnd(buffer[1], 2) # 0

\* --------------------------------------------------------------- state

VARIABLES
    pc,                 \* where control is
    err,                \* the exception raised, "" when none
    bstream,            \* the argument of Encoder.encode
    max_ratio,          \* Encoder.max_ratio
    bstream_it,         \* encode: what is left of the input iterator
    output,             \* encode: the output bytearray, then the result
    last_header_index,  \* encode: offset of the last header, or NoneIndex
    last_block_length,  \* encode: real length of the last chunk
    portrait,           \* create_image: its portrait argument
    img_dim,            \* create_image: (x, y)
    tail,               \* the bytes that follow the framed blocks in dstream
    dstream,            \* the argument of Decoder.decode
    dstream_it,         \* decode: what is left of the input iterator
    decoded,            \* decode: the decoded bytearray
    is_end,             \* decode: the loop flag
    result,             \* decode: the returned bytes (set on return only)
    x0, y0, ratio,      \* the arguments of find_optimal_dim
    x, y,               \* find_optimal_dim: the loop variables
    n0,                 \* the argument of prime_factors
    n, count, pf,       \* prime_factors: its locals
    ab                  \* the result of closest_factors_to_sqrt

encVars == <<bstream, max_ratio, bstream_it, output, last_header_index,
             last_block_length>>
imgVars == <<portrait, img_dim>>
decVars == <<tail, dstream, dstream_it, decoded, is_end, result>>
findVars == <<x0, y0, ratio, x, y>>
pfVars == <<n0, n, count, pf, ab>>
vars == <<pc, err, encVars, imgVars, decVars, findVars, pfVars>>

\* The values of the variables an operation has not touched yet.
EncIdle ==
    /\ bstream = <<>> /\ max_ratio = NoRatio /\ bstream_it = <<>>
    /\ output = <<>> /\ last_header_index = NoneIndex /\ last_block_length = 0
ImgIdle == portrait = FALSE /\ img_dim = <<0, 0>>
DecIdle ==
    /\ tail = <<>> /\ dstream = <<>> /\ dstream_it = <<>>
    /\ decoded = <<>> /\ is_end = FALSE /\ result = <<>>
FindIdle == x0 = 1 /\ y0 = 1 /\ ratio = <<1, 1>> /\ x = 1 /\ y = 1
PfIdle == n0 = 1 /\ n = 1 /\ count = 0 /\ pf = {} /\ ab = <<0, 0>>

\* ------------------------------------------------------ Encoder.encode

\* Lines 194, 231-233: encode is called on an input of at most MaxLen bytes.
InitEncode ==
    /\ pc = "enc" /\ err = ""
    /\ bstream \in SeqsUpTo(ByteVals, MaxLen)
    /\ max_ratio \in {NoRatio} \cup {SomeRatio(r) : r \in Ratios}
    /\ bstream_it = bstream
    /\ output = <<>> /\ last_header_index = NoneIndex /\ last_block_length = 0
    /\ ImgIdle /\ DecIdle /\ FindIdle /\ PfIdle

\* Lines 234-247: one iteration of the loop that reads a nonempty chunk.
EncodeBlock ==
    /\ pc = "enc"
    /\ Len(fill_buffer7(bstream_it)) # 0
    /\ LET buffer == fill_buffer7(bstream_it)
       IN  /\ last_block_length' = Len(buffer)
           /\ last_header_index' = Len(output)
           /\ output' = output \o encode_block(buffer)
    /\ bstream_it' = Drop(bstream_it, 7)
    /\ UNCHANGED <<pc, err, bstream, max_ratio, imgVars, decVars, findVars, pfVars>>

\* Lines 235-237, 249-253: the loop ends on an empty chunk and the last
\* header, when there is one, is marked.
EncodeEnd ==
    /\ pc = "enc"
    /\ Len(fill_buffer7(bstream_it)) = 0
    /\ output' = IF last_header_index # NoneIndex
                 THEN [output EXCEPT ![last_header_index + 1] =
                          mark_last_header(@, last_block_length)]
                 ELSE output
    /\ pc' = "enc_pad"
    /\ UNCHANGED <<err, bstream, max_ratio, bstream_it, last_header_index,
                   last_block_length, imgVars, decVars, findVars, pfVars>>

\* Lines 255-267: the padding. With a max ratio and no output,
\* recommend_img_dim(0) calls prime_factors(0), which is entered here;
\* without one and no output, missing // len_out divides by zero.
EncodePad ==
    /\ pc = "enc_pad"
    /\ LET len_out == Len(output)
           missing == missing3(len_out)
       IN  IF max_ratio.some /\ (len_out + missing) \div 3 = 0
           THEN /\ pc' = "pf_twos"
                /\ n0' = 0 /\ n' = 0 /\ count' = 0 /\ pf' = {}
                /\ UNCHANGED <<err, output, ab>>
           ELSE IF len_out = 0
           THEN /\ pc' = "enc_raised"
                /\ err' = "ZeroDivisionError"
                /\ UNCHANGED <<output, pfVars>>
           ELSE /\ pc' = "encoded"
                /\ output' = cyclic_pad(output, missing_bytes(len_out, max_ratio))
                /\ UNCHANGED <<err, pfVars>>
    /\ UNCHANGED <<bstream, max_ratio, bstream_it, last_header_index,
                   last_block_length, imgVars, decVars, findVars>>

\* Lines 17-19 of prime_factors: one iteration of "while n % 2 == 0".
PrimeFactorsHalve ==
    /\ pc = "pf_twos"
    /\ n % 2 = 0
    /\ n' = n \div 2
    /\ count' = Min(count + 1, MaxCount)
    /\ UNCHANGED <<pc, err, encVars, imgVars, decVars, findVars, n0, pf, ab>>

\* Line 148 of create_image on the result of encode.
CreateImage ==
    /\ pc = "encoded"
    /\ \E p \in BOOLEAN :
          /\ portrait' = p
          /\ img_dim' = recommend_img_dim(Len(output) \div 3, p)
    /\ pc' = "image"
    /\ UNCHANGED <<err, encVars, decVars, findVars, pfVars>>

\* ------------------------------------------------------ Decoder.decode

\* Lines 324, 336-337: decode is called on the result of encode; tail is the
\* cyclic padding, the bytes after the last block encode framed.
DecodeCall ==
    /\ pc = "encoded"
    /\ dstream' = output
    /\ dstream_it' = output
    /\ decoded' = <<>> /\ is_end' = FALSE
    /\ tail' = Drop(output, last_header_index + 8)
    /\ pc' = "dec"
    /\ UNCHANGED <<err, encVars, imgVars, result, findVars, pfVars>>

\* Lines 338-352: one iteration that reads a whole block; decode returns
\* when the block is end-marked.
DecodeBlock ==
    /\ pc = "dec"
    /\ ~(Len(fill_buffer8(dstream_it)) < 8)
    /\ LET buffer == fill_buffer8(dstream_it)
       IN  /\ is_end' = (is_end \/ is_end_block(buffer))
           /\ decoded' = decoded \o decode_block(buffer)
    /\ dstream_it' = Drop(dstream_it, 8)
    /\ pc' = IF is_end' THEN "dec_done" ELSE "dec"
    /\ result' = IF is_end' THEN decoded' ELSE result
    /\ UNCHANGED <<err, encVars, imgVars, tail, dstream, findVars, pfVars>>

\* A decoder that returns what it has decoded when the stream runs out.
DecodeReturnsPartial ==
    /\ pc = "dec"
    /\ Len(fill_buffer8(dstream_it)) < 8
    /\ dstream_it' = Drop(dstream_it, 8)
    /\ result' = decoded
    /\ pc' = "dec_done"
    /\ UNCHANGED <<err, encVars, imgVars, tail, dstream, decoded, is_end,
                   findVars, pfVars>>

\* Lines 339-341: fewer than 8 bytes are left: ValueError, nothing is
\* returned.
DecodeRaise ==
    /\ pc = "dec"
    /\ Len(fill_buffer8(dstream_it)) < 8
    /\ dstream_it' = Drop(dstream_it, 8)
    /\ err' = "ValueError"
    /\ pc' = "dec_raised"
    /\ UNCHANGED <<encVars, imgVars, tail, dstream, decoded, is_end, result,
                   findVars, pfVars>>

\* The byte strings that follow the framed blocks: k times the byte v.
Tails == {Repeat(<<v>>, k) : v \in TailVals, k \in 0..MaxTail}

\* A block no encoder produced: header h, payload 7 times v.
RawBlock(h, v) == <<h>> \o Repeat(<<v>>, 7)

\* Streams of at most k such blocks.
RECURSIVE RawBlocks(_)
RawBlocks(k) ==
    IF k = 0 THEN {<<>>}
    ELSE LET shorter == RawBlocks(k - 1)
         IN  shorter \cup {RawBlock(h, v) \o s :
                              h \in RawHeaders, v \in RawVals, s \in shorter}

\* Such streams followed by an incomplete block of f bytes.
RawStreams == {s \o Repeat(<<255>>, f) : s \in RawBlocks(MaxRawBlocks), f \in 0..7}

\* Lines 324, 336-337: decode is called on the framed blocks of a nonempty
\* bstream followed by tail, or on a stream no encoder produced (bstream
\* and tail are empty then).
InitDecode ==
    /\ pc = "dec" /\ err = ""
    /\ \/ \E p \in {<<b, encode_blocks(b)>> : b \in SeqsUpTo(ByteVals, MaxLen) \ {<<>>}} :
            /\ bstream = p[1]
            /\ tail \in Tails
            /\ dstream = p[2] \o tail
       \/ /\ bstream = <<>>
          /\ tail = <<>>
          /\ dstream \in RawStreams
    /\ dstream_it = dstream
    /\ decoded = <<>> /\ is_end = FALSE /\ result = <<>>
    /\ max_ratio = NoRatio /\ bstream_it = <<>> /\ output = <<>>
    /\ last_header_index = NoneIndex /\ last_block_length = 0
    /\ ImgIdle /\ FindIdle /\ PfIdle

Init == InitEncode \/ InitDecode

Next ==
    \/ EncodeBlock
    \/ EncodeEnd
    \/ EncodePad
    \/ PrimeFactorsHalve
    \/ CreateImage
    \/ DecodeCall
    \/ DecodeBlock
    \/ DecodeRaise

Spec == Init /\ [][Next]_vars

\* ---------------------------------------------------- dimension solver

\* find_optimal_dim is called on a width, a height and a max ratio.
InitFind ==
    /\ pc = "find" /\ err = ""
    /\ x0 \in 1..MaxSide /\ y0 \in 1..MaxSide /\ ratio \in Ratios
    /\ x = x0 /\ y = y0
    /\ EncIdle /\ ImgIdle /\ DecIdle /\ PfIdle

\* closest_factors_to_sqrt is called on n0 and calls prime_factors (lines
\* 48, 15-16).
InitPrimeFactors ==
    /\ pc = "pf_twos" /\ err = ""
    /\ n0 \in (0 - MaxNeg)..MaxSide
    /\ n = n0 /\ count = 0 /\ pf = {} /\ ab = <<0, 0>>
    /\ EncIdle /\ ImgIdle /\ DecIdle /\ FindIdle

\* Lines 130-132: one iteration of the loop of find_optimal_dim.
FindStep ==
    /\ pc = "find"
    /\ not_within_ratio(x, y, ratio)
    /\ LET xy == find_optimal_step(x, y)
       IN  x' = xy[1] /\ y' = xy[2]
    /\ UNCHANGED <<pc, err, encVars, imgVars, decVars, x0, y0, ratio, pfVars>>

\* Lines 130, 133: the loop ends and (x, y) is returned.
FindReturn ==
    /\ pc = "find"
    /\ ~not_within_ratio(x, y, ratio)
    /\ pc' = "find_done"
    /\ UNCHANGED <<err, encVars, imgVars, decVars, findVars, pfVars>>

\* Lines 20-31 of prime_factors, once n is odd: int(n**0.5) of a negative n
\* is int() of a complex number, a TypeError; pf[2] is set before that.
PrimeFactorsRest ==
    /\ pc = "pf_twos"
    /\ n % 2 # 0
    /\ IF n < 0
       THEN /\ pf' = (IF count > 0 THEN {<<2, count>>} ELSE {})
            /\ err' = "TypeError"
            /\ pc' = "pf_raised"
       ELSE /\ pf' = prime_factors_rest(n, count)
            /\ err' = err
            /\ pc' = "pf_done"
    /\ UNCHANGED <<encVars, imgVars, decVars, findVars, n0, n, count, ab>>

\* Lines 49-58 of closest_factors_to_sqrt on the mapping prime_factors
\* returned.
ClosestFactors ==
    /\ pc = "pf_done"
    /\ ab' = GreedyPair[pfs_queue[pf], 1, 1]
    /\ pc' = "cf_done"
    /\ UNCHANGED <<err, encVars, imgVars, decVars, findVars, n0, n, count, pf>>

InitDim == InitFind \/ InitPrimeFactors

NextDim ==
    \/ FindStep
    \/ FindReturn
    \/ PrimeFactorsHalve
    \/ PrimeFactorsRest
    \/ ClosestFactors

\* The solver is sequential code: a loop that can take its next step takes
\* it.
SpecDim == InitDim /\ [][NextDim]_vars /\ WF_vars(NextDim)

\* ------------------------------------------------------------- claims

\* ceil(a / b)
CeilDiv(a, b) == (a + b - 1) \div b

\* The numbers (from 0) of the complete 8-byte blocks of s, at offsets 0, 8,
\* 16, ..., whose header has bit 1 set.
EndMarked(s) == {k \in 0..((Len(s) \div 8) - 1) : BitAnd(s[8 * k + 1], 2) # 0}

\* The smallest perfect square above m.
SquareAbove(m) == (isqrt(m) + 1) * (isqrt(m) + 1)

\* max(w/h, h/w) <= r[1]/r[2]
WithinRatio(w, h, r) == w * r[2] <= h * r[1] /\ h * r[2] <= w * r[1]

\* Some pair (c, d) with c*d = m has max(c/d, d/c) <= r.
Compliant(m, r) ==
    \E c \in 1..m : m % c = 0 /\ WithinRatio(c, m \div c, r)

\* The smallest m >= k that is Compliant; a perfect square always is.
SmallestCompliant(k, r) ==
    CHOOSE m \in k..SquareAbove(k) :
        Compliant(m, r) /\ \A j \in k..(m - 1) : ~Compliant(j, r)

\* decode was called on the result of encode.
DecodingEncoded == pc \in {"dec", "dec_done", "dec_raised"} /\ output # <<>>

\* C1: round trip: once decode(encode(b)) has ended, by a return or by an
\* exception of encode or of decode, it has returned exactly b, for every
\* b (the empty one included) and with or without a max ratio.
C1_RoundTrip ==
    (pc = "enc_raised" \/ (DecodingEncoded /\ pc # "dec"))
        => (pc = "dec_done" /\ err = "" /\ result = bstream)

\* C2: the decoder never reads past the end-of-stream block: on the framed
\* blocks of a nonempty b followed by any tail (garbage, or the encoder's
\* cyclic padding: when decode starts, the stream is those blocks followed
\* by the tail), decode never consumes a byte of the tail, never raises, and
\* returns exactly b with the whole tail unread.
C2_StopsAtEndBlock ==
    (pc \in {"dec", "dec_done", "dec_raised"} /\ bstream # <<>>)
        => /\ dstream_it = dstream => dstream = encode_blocks(bstream) \o tail
           /\ Len(dstream_it) >= Len(tail)
           /\ pc # "dec_raised"
           /\ pc = "dec_done" => (result = bstream /\ dstream_it = tail)

\* C2's case: decode has returned b of two blocks although a whole
\* end-marked garbage block follows the end-of-stream block.
C2_Witness ==
    /\ pc = "dec_done" /\ Len(bstream) > 7 /\ result = bstream
    /\ Len(tail) >= 8 /\ BitAnd(tail[1], 2) # 0

\* C3: single end marker: in the result of encode for a nonempty b, cyclic
\* padding included, exactly one complete 8-byte block has header bit 1
\* set, and it is block number ceil(len(b)/7) - 1.
C3_SingleEndMarker ==
    (output # <<>> /\ pc \notin {"enc", "enc_pad"})
        => EndMarked(output) = {CeilDiv(Len(bstream), 7) - 1}

\* C3's case: encode has returned and the cyclic padding holds a whole
\* block more than the blocks framed from b.
C3_Witness ==
    /\ pc = "encoded"
    /\ Len(output) \div 8 > CeilDiv(Len(bstream), 7)

\* C4: framing error: a decoder that needs a block and has fewer than 8
\* bytes left raises ValueError and returns nothing; decode raises only on a
\* stream with no end-marked complete block and returns only on a stream
\* with one.
C4_FramingError ==
    /\ [](pc = "dec_raised"
            => (err = "ValueError" /\ result = <<>> /\ EndMarked(dstream) = {}))
    /\ [](pc = "dec_done" => EndMarked(dstream) # {})
    /\ [][(pc = "dec" /\ Len(dstream_it) < 8)
            => (pc' = "dec_raised" /\ err' = "ValueError" /\ result' = <<>>)]_vars

\* C4's case: decode has raised after decoding a block, and returned none
\* of it.
C4_Witness ==
    /\ pc = "dec_raised" /\ err = "ValueError"
    /\ Len(decoded) > 0 /\ result = <<>>

\* C5: encode of the empty byte string, once it has ended, has returned the
\* empty byte string without raising.
C5_EncodeEmpty ==
    (bstream = <<>> /\ pc \in {"enc_raised", "encoded"})
        => (pc = "encoded" /\ err = "" /\ output = <<>>)

\* C6: decode of the empty byte stream, once it has ended, has returned the
\* empty output without raising.
C6_DecodeEmpty ==
    (dstream = <<>> /\ pc \in {"dec_done", "dec_raised"})
        => (pc = "dec_done" /\ err = "" /\ result = <<>>)

\* C7: raster fill: the length of the result of encode is a multiple of 3,
\* the dimensions create_image uses are positive with w*h*3 equal to that
\* length, w >= h in landscape and w <= h in portrait, and
\* recommend_img_dim(k) has product k for every k from 1 to the pixel count.
C7_RasterFill ==
    pc = "image"
        => /\ Len(output) % 3 = 0
           /\ img_dim[1] >= 1 /\ img_dim[2] >= 1
           /\ img_dim[1] * img_dim[2] * 3 = Len(output)
           /\ (portrait => img_dim[1] <= img_dim[2])
           /\ (~portrait => img_dim[1] >= img_dim[2])
           /\ \A k \in 1..(Len(output) \div 3) :
                 LET d == recommend_img_dim(k, portrait) IN d[1] * d[2] = k

\* C7's case: an image of more than one row of an output that a max ratio
\* made longer than the next multiple of 3.
C7_Witness ==
    /\ pc = "image" /\ portrait /\ max_ratio.some
    /\ img_dim[1] > 1 /\ img_dim[2] > 1
    /\ Len(output) > Len(encode_blocks(bstream)) + 2

\* C8: ratio search minimality: find_optimal_dim started from
\* recommend_img_dim(k) returns dimensions whose pixel count is the
\* smallest m >= k for which some pair (c, d) with c*d = m is within the
\* ratio.
C8_Minimality ==
    (pc = "find_done" /\ <<x0, y0>> = recommend_img_dim(x0 * y0, FALSE))
        => x * y = SmallestCompliant(x0 * y0, ratio)

\* C9: prime_factors(k) for k <= 1 terminates with the empty mapping and
\* closest_factors_to_sqrt(k) returns.
C9_SmallArguments ==
    (pc = "pf_twos" /\ n0 <= 1) ~> (pc = "cf_done" /\ pf = {})

\* C10: ratio search total correctness: find_optimal_dim terminates with
\* dimensions within the ratio; it returns (x, y) unchanged when they are
\* within it already, and never passes the smallest perfect square above
\* x*y.
C10_RatioSearch ==
    /\ [](pc \in {"find", "find_done"}
            => /\ pc = "find_done" => WithinRatio(x, y, ratio)
               /\ WithinRatio(x0, y0, ratio) => (x = x0 /\ y = y0)
               /\ x >= 1 /\ y >= 1
               /\ x * y <= SquareAbove(x0 * y0))
    /\ ((pc = "find") ~> (pc = "find_done"))

\* C10's case: the search has returned after several iterations, at the
\* perfect square itself.
C10_Witness ==
    /\ pc = "find_done"
    /\ ~WithinRatio(x0, y0, ratio)
    /\ x * y > x0 * y0 + 1
    /\ x * y = SquareAbove(x0 * y0)

====
